---- MODULE Spec2Model ----
(***************************************************************************)
(* Model of calorie_calculator.py: the Mifflin-St Jeor BMR function, the   *)
(* TDEE function with its activity-factor table, and the __main__ block.   *)
(*                                                                         *)
(* Numbers.  Python floats are modelled as exact fixed-point integers:     *)
(*   - weights, heights and BMR values are counted in sixteenths (1/16),   *)
(*     and every weight and height drawn as input is a multiple of a       *)
(*     quarter, so that 6.25 * height is a whole number of sixteenths;     *)
(*   - activity factors are counted in thousandths (1.375 is 1375);        *)
(*   - a TDEE value, BMR * factor, is counted in 1/16000.                  *)
(* Strings are sequences of one-character strings, so that lower(),        *)
(* replace(), capitalize() and join() are computed character by character. *)
(***************************************************************************)
EXTENDS Integers, Sequences, FiniteSets, TLC

VARIABLES
    ACTIVITY_FACTORS,  \* the module-level dict, as a sequence of [key, factor]
    call,              \* the latest direct call of a function: its name and arguments
    ret,               \* the outcome of that call: a returned value or a ValueError
    main,              \* frame of the __main__ block: pc, profile, bmr_result, tdee_result
    stdout,            \* the lines __main__ has printed, in order
    callers            \* concurrent callers: each one's frame inside a function body

vars == <<ACTIVITY_FACTORS, call, ret, main, stdout, callers>>

----------------------------------------------------------------------------
(* Fixed point *)

\* An integer literal of the source as a number of sixteenths.
Real(n) == n * 16

----------------------------------------------------------------------------
(* Python str methods *)

UpperLetters ==
    <<"A", "B", "C", "D", "E", "F", "G", "H", "I", "J", "K", "L", "M", "N", "O", "P", "Q", "R", "S", "T", "U", "V", "W", "X", "Y", "Z">>

LowerLetters ==
    <<"a", "b", "c", "d", "e", "f", "g", "h", "i", "j", "k", "l", "m", "n", "o", "p", "q", "r", "s", "t", "u", "v", "w", "x", "y", "z">>

lower_char(c) ==
    IF \E i \in 1..26 : UpperLetters[i] = c
    THEN LowerLetters[CHOOSE i \in 1..26 : UpperLetters[i] = c]
    ELSE c

upper_char(c) ==
    IF \E i \in 1..26 : LowerLetters[i] = c
    THEN UpperLetters[CHOOSE i \in 1..26 : LowerLetters[i] = c]
    ELSE c

\* str.lower()
lower(s) == [i \in 1..Len(s) |-> lower_char(s[i])]

\* str.replace(old, new) for one-character old and new
replace(s, old, new) == [i \in 1..Len(s) |-> IF s[i] = old THEN new ELSE s[i]]

\* str.capitalize(): first character upper-cased, the rest lower-cased
capitalize(s) == [i \in 1..Len(s) |-> IF i = 1 THEN upper_char(s[i]) ELSE lower_char(s[i])]

\* sep.join(parts)
RECURSIVE join(_, _)
join(sep, parts) ==
    IF Len(parts) = 0 THEN <<>>
    ELSE IF Len(parts) = 1 THEN parts[1]
    ELSE parts[1] \o sep \o join(sep, Tail(parts))

----------------------------------------------------------------------------
(* The activity-factor table *)

\* The table with the factors of two neighbouring entries exchanged.
ActivityFactorsSwapped ==
    << [key |-> <<"s", "e", "d", "e", "n", "t", "a", "r", "y">>,         factor |-> 1200],
       [key |-> <<"l", "i", "g", "h", "t", "l", "y", "_", "a", "c", "t", "i", "v", "e">>,    factor |-> 1375],
       [key |-> <<"m", "o", "d", "e", "r", "a", "t", "e", "l", "y", "_", "a", "c", "t", "i", "v", "e">>, factor |-> 1725],
       [key |-> <<"v", "e", "r", "y", "_", "a", "c", "t", "i", "v", "e">>,       factor |-> 1550],
       [key |-> <<"s", "u", "p", "e", "r", "_", "a", "c", "t", "i", "v", "e">>,      factor |-> 1900] >>

\* lines 4-10
ActivityFactorsLiteral ==
    << [key |-> <<"s", "e", "d", "e", "n", "t", "a", "r", "y">>,         factor |-> 1200],
       [key |-> <<"l", "i", "g", "h", "t", "l", "y", "_", "a", "c", "t", "i", "v", "e">>,    factor |-> 1375],
       [key |-> <<"m", "o", "d", "e", "r", "a", "t", "e", "l", "y", "_", "a", "c", "t", "i", "v", "e">>, factor |-> 1550],
       [key |-> <<"v", "e", "r", "y", "_", "a", "c", "t", "i", "v", "e">>,       factor |-> 1725],
       [key |-> <<"s", "u", "p", "e", "r", "_", "a", "c", "t", "i", "v", "e">>,      factor |-> 1900] >>

\* key in table
Contains(table, k) == \E i \in 1..Len(table) : table[i].key = k

\* table[key]
Lookup(table, k) == table[CHOOSE i \in 1..Len(table) : table[i].key = k].factor

\* reversed(table.keys())
keys_reversed(table) == [i \in 1..Len(table) |-> table[Len(table) + 1 - i].key]

\* table.keys(), in insertion order
keys(table) == [i \in 1..Len(table) |-> table[i].key]

----------------------------------------------------------------------------
(* Outcomes of a call *)

Return(v) == [kind |-> "return", value |-> v]

ValueError(m) == [kind |-> "ValueError", message |-> m]

----------------------------------------------------------------------------
(* calculate_bmr *)

GenderErrorMessage == "Gender must be 'male' or 'female'."

\* the comparison of line 33 without lower()
BmrGenderOffsetNoLower(base_bmr, gender) ==
    IF gender = <<"m", "a", "l", "e">> THEN base_bmr + Real(5) ELSE base_bmr - Real(161)

\* lines 33-38: the gender-dependent constant S
BmrGenderOffset(base_bmr, gender) ==
    IF lower(gender) = <<"m", "a", "l", "e">> THEN base_bmr + Real(5) ELSE base_bmr - Real(161)

\* line 31 with the age term added instead of subtracted
BaseBmrAddsAge(weight_kg, height_cm, age) ==
    (10 * weight_kg) + ((625 * height_cm) \div 100) + (5 * Real(age))

\* line 31; 6.25 is 625/100, exact on the quarter-valued heights
BaseBmr(weight_kg, height_cm, age) ==
    (10 * weight_kg) + ((625 * height_cm) \div 100) - (5 * Real(age))

\* the test of line 28 without lower()
GenderValidNoLower(gender) == gender \in {<<"m", "a", "l", "e">>, <<"f", "e", "m", "a", "l", "e">>}

\* line 28
GenderValid(gender) == lower(gender) \in {<<"m", "a", "l", "e">>, <<"f", "e", "m", "a", "l", "e">>}

calculate_bmr(weight_kg, height_cm, age, gender) ==
    IF ~GenderValid(gender)
    THEN ValueError(GenderErrorMessage)
    ELSE Return(BmrGenderOffset(BaseBmr(weight_kg, height_cm, age), gender))

----------------------------------------------------------------------------
(* calculate_tdee *)

\* line 56 without the replace()
NormalizeActivityNoReplace(activity_level) == lower(activity_level)

\* line 56
NormalizeActivity(activity_level) == replace(lower(activity_level), " ", "_")

\* line 59: the f-string, as its fixed text and the joined keys
ActivityErrorMessage(table) ==
    [text |-> "Invalid activity level. Choose from: ",
     choices |-> join(<<",", " ">>, keys(table))]

calculate_tdee_in(table, bmr, activity_level) ==
    LET normalized == NormalizeActivity(activity_level) IN
    IF ~Contains(table, normalized)
    THEN ValueError(ActivityErrorMessage(table))
    ELSE LET activity_factor == Lookup(table, normalized) IN
         Return(bmr * activity_factor)

\* the function, reading the module-level table
calculate_tdee(bmr, activity_level) ==
    calculate_tdee_in(ACTIVITY_FACTORS, bmr, activity_level)

----------------------------------------------------------------------------
(* Inputs *)

\* How many characters of a word an input may change in case (or in
\* underscore against space).
MaxFlips == 1

\* How many quarter-kilograms, quarter-centimetres or years an input may lie
\* away from the sample profiles.
MaxDelta == 1

\* How many callers run the functions concurrently.
NumCallers == 2

toggle_char(c) ==
    IF c = "_" THEN " "
    ELSE IF c = " " THEN "_"
    ELSE IF upper_char(c) # c THEN upper_char(c) ELSE lower_char(c)

\* The strings that differ from s in at most k characters, each changed in
\* letter case or between underscore and space.
RECURSIVE Variants(_, _)
Variants(s, k) ==
    IF Len(s) = 0 THEN {<<>>}
    ELSE {<<s[1]>> \o r : r \in Variants(Tail(s), k)}
         \cup (IF k > 0
               THEN {<<toggle_char(s[1])>> \o r : r \in Variants(Tail(s), k - 1)}
               ELSE {})

GenderExamples ==
    { <<"m", "a", "l", "e">>, <<"M", "a", "l", "e">>, <<"M", "A", "L", "E">>, <<"f", "e", "m", "a", "l", "e">>, <<"F", "e", "m", "a", "l", "e">>, <<"F", "E", "M", "A", "L", "E">>, <<"F", "e", "M", "a", "L", "e">>,
      <<"o", "t", "h", "e", "r">>, <<>>, <<"m", "a", "n">>, <<"x">>, <<"m", "a", "l", "e", "s">>, <<" ", "m", "a", "l", "e">>, <<"f", "e", " ", "m", "a", "l", "e">>, <<"m">> }

Genders ==
    GenderExamples \cup Variants(<<"m", "a", "l", "e">>, MaxFlips) \cup Variants(<<"f", "e", "m", "a", "l", "e">>, MaxFlips)

ActivityExamples ==
    { <<"l", "i", "g", "h", "t", "l", "y", "_", "a", "c", "t", "i", "v", "e">>, <<"L", "i", "g", "h", "t", "l", "y", " ", "A", "c", "t", "i", "v", "e">>, <<"L", "I", "G", "H", "T", "L", "Y", " ", "A", "C", "T", "I", "V", "E">>, <<"S", "e", "d", "e", "n", "t", "a", "r", "y">>,
      <<"S", "U", "P", "E", "R", "_", "A", "C", "T", "I", "V", "E">>, <<"V", "e", "r", "y", " ", "A", "c", "t", "i", "v", "e">>, <<"m", "o", "d", "e", "r", "a", "t", "e", "l", "y", " ", "a", "c", "t", "i", "v", "e">>, <<"M", "o", "d", "e", "r", "a", "t", "e", "l", "y", "_", "A", "c", "t", "i", "v", "e">>,
      <<"e", "x", "t", "r", "e", "m", "e">>, <<>>, <<"a", "c", "t", "i", "v", "e">>, <<"l", "i", "g", "h", "t", "l", "y", "-", "a", "c", "t", "i", "v", "e">>, <<"l", "i", "g", "h", "t", "l", "y", "a", "c", "t", "i", "v", "e">>,
      <<"s", "e", "d", "e", "n", "t", "a", "r", "y", " ">>, <<"s", "u", "p", "e", "r", " ", " ", "a", "c", "t", "i", "v", "e">>, <<"v", "e", "r", "y", "_", "_", "a", "c", "t", "i", "v", "e">> }

ActivityLevels ==
    ActivityExamples
    \cup UNION {Variants(ActivityFactorsLiteral[i].key, MaxFlips) : i \in 1..5}

Deltas == (0 - MaxDelta)..MaxDelta

\* weights and heights, in sixteenths, each a multiple of a quarter
Weights == {Real(53) + 4 * d : d \in Deltas} \cup {Real(70), 0, Real(0 - 1)}

Heights == {Real(165) + 4 * d : d \in Deltas} \cup {Real(170), 0}

Ages == {20 + d : d \in Deltas} \cup {30, 0, 0 - 1}

\* BMR values handed to calculate_tdee, in sixteenths
Bmrs == {23460 + d : d \in Deltas} \cup {23224, 1, 0, 0 - 16}

----------------------------------------------------------------------------
(* Direct calls of the two functions *)

NoOutcome == [kind |-> "none"]

MainIdle == [pc |-> "idle"]

NoCallers == [c \in 1..NumCallers |-> [pc |-> "idle"]]

BmrCalls ==
    [fn : {"calculate_bmr"}, weight_kg : Weights, height_cm : Heights,
     age : Ages, gender : Genders]

TdeeCalls ==
    [fn : {"calculate_tdee"}, bmr : Bmrs, activity_level : ActivityLevels]

\* A caller has its arguments ready; the call has not run yet.
Init ==
    /\ ACTIVITY_FACTORS = ActivityFactorsLiteral
    /\ call \in BmrCalls \cup TdeeCalls
    /\ ret = NoOutcome
    /\ main = MainIdle
    /\ stdout = <<>>
    /\ callers = NoCallers

CallBmr ==
    /\ call.fn = "calculate_bmr"
    /\ ret = NoOutcome
    /\ ret' = calculate_bmr(call.weight_kg, call.height_cm, call.age, call.gender)
    /\ UNCHANGED <<ACTIVITY_FACTORS, call, main, stdout, callers>>

CallTdee ==
    /\ call.fn = "calculate_tdee"
    /\ ret = NoOutcome
    /\ ret' = calculate_tdee(call.bmr, call.activity_level)
    /\ UNCHANGED <<ACTIVITY_FACTORS, call, main, stdout, callers>>

Next == CallBmr \/ CallTdee

Spec == Init /\ [][Next]_vars

----------------------------------------------------------------------------
(* Properties of the direct calls *)

BmrDone == call.fn = "calculate_bmr" /\ ret # NoOutcome

TdeeDone == call.fn = "calculate_tdee" /\ ret # NoOutcome

\* Two characters are the same letter, in either case.
SameLetter(a, b) ==
    \E i \in 1..26 : {a, b} \subseteq {UpperLetters[i], LowerLetters[i]}

\* s and t differ only in letter case.
SameUpToCase(s, t) ==
    /\ Len(s) = Len(t)
    /\ \A i \in 1..Len(s) : s[i] = t[i] \/ SameLetter(s[i], t[i])

\* s and t differ only in letter case and in a space against an underscore.
SameUpToCaseAndSpace(s, t) ==
    /\ Len(s) = Len(t)
    /\ \A i \in 1..Len(s) :
          s[i] = t[i] \/ SameLetter(s[i], t[i]) \/ {s[i], t[i]} = {" ", "_"}

\* C1: calculate_bmr returns 10*w + 6.25*h - 5*a + 5 when the gender
\* lowercases to 'male' and 10*w + 6.25*h - 5*a - 161 when it lowercases to
\* 'female'; 53 kg, 165 cm, 20, male gives 1466.25 and 70 kg, 170 cm, 30,
\* female gives 1451.5 (23460 and 23224 sixteenths).
C1_BmrFormula ==
    BmrDone =>
        LET w == call.weight_kg
            h == call.height_cm
            a == call.age
            g == call.gender
            linear == 10 * w + (25 * h) \div 4 - 5 * a * 16
        IN  /\ SameUpToCase(g, <<"m", "a", "l", "e">>) => ret = Return(linear + 5 * 16)
            /\ SameUpToCase(g, <<"f", "e", "m", "a", "l", "e">>) => ret = Return(linear - 161 * 16)
            /\ (w = 53 * 16 /\ h = 165 * 16 /\ a = 20 /\ g = <<"m", "a", "l", "e">>)
                   => ret = Return(23460)
            /\ (w = 70 * 16 /\ h = 170 * 16 /\ a = 30 /\ g = <<"f", "e", "m", "a", "l", "e">>)
                   => ret = Return(23224)

C1_Witness ==
    /\ BmrDone
    /\ call.gender = <<"F", "E", "M", "A", "L", "E">>
    /\ call.weight_kg = 53 * 16 + 4 /\ call.height_cm = 165 * 16 - 4 /\ call.age = 21
    /\ ret = Return(20739)

\* C2: calculate_bmr fails with ValueError exactly when the lowercased gender
\* is neither 'male' nor 'female', whatever the weight, height and age; a
\* failure carries no numeric result and a valid gender never fails.
C2_BmrFailsIffGenderInvalid ==
    BmrDone =>
        LET valid == SameUpToCase(call.gender, <<"m", "a", "l", "e">>)
                     \/ SameUpToCase(call.gender, <<"f", "e", "m", "a", "l", "e">>)
        IN  /\ ret.kind \in {"return", "ValueError"}
            /\ ret.kind = "ValueError" <=> ~valid
            /\ ret.kind = "ValueError" => DOMAIN ret = {"kind", "message"}
            /\ ret.kind = "return" => ret.value \in Int
            /\ call.gender \in {<<"o", "t", "h", "e", "r">>, <<>>, <<"m", "a", "n">>, <<"x">>}
                   => ret = ValueError("Gender must be 'male' or 'female'.")

C2_Witness ==
    /\ BmrDone
    /\ call.gender = <<"m", "a", "n">>
    /\ call.weight_kg = 0 - 16
    /\ ret.kind = "ValueError"

C2_WitnessValid ==
    /\ BmrDone
    /\ call.gender = <<"m", "A", "l", "e">>
    /\ call.weight_kg = 0 - 16 /\ call.height_cm = 0 /\ call.age = 0 - 1
    /\ ret.kind = "return"

\* The factor the documentation binds to each key, in thousandths.
DocumentedFactor(k) ==
    CASE k = <<"s", "e", "d", "e", "n", "t", "a", "r", "y">> -> 1200
      [] k = <<"l", "i", "g", "h", "t", "l", "y", "_", "a", "c", "t", "i", "v", "e">> -> 1375
      [] k = <<"m", "o", "d", "e", "r", "a", "t", "e", "l", "y", "_", "a", "c", "t", "i", "v", "e">> -> 1550
      [] k = <<"v", "e", "r", "y", "_", "a", "c", "t", "i", "v", "e">> -> 1725
      [] k = <<"s", "u", "p", "e", "r", "_", "a", "c", "t", "i", "v", "e">> -> 1900

FiveKeys ==
    { <<"s", "e", "d", "e", "n", "t", "a", "r", "y">>, <<"l", "i", "g", "h", "t", "l", "y", "_", "a", "c", "t", "i", "v", "e">>, <<"m", "o", "d", "e", "r", "a", "t", "e", "l", "y", "_", "a", "c", "t", "i", "v", "e">>, <<"v", "e", "r", "y", "_", "a", "c", "t", "i", "v", "e">>,
      <<"s", "u", "p", "e", "r", "_", "a", "c", "t", "i", "v", "e">> }

\* C3: for every bmr and each of the five keys, calculate_tdee returns bmr
\* times the key's factor: 1.2, 1.375, 1.55, 1.725, 1.9.
C3_TdeeIsBmrTimesFactor ==
    (TdeeDone /\ call.activity_level \in FiveKeys)
        => ret = Return(call.bmr * DocumentedFactor(call.activity_level))

C3_Witness ==
    /\ TdeeDone
    /\ call.activity_level = <<"v", "e", "r", "y", "_", "a", "c", "t", "i", "v", "e">>
    /\ call.bmr = 23460
    /\ ret = Return(23460 * 1725)

\* Some string that differs from k only in case and space/underscore.
NormalizesTo(s, k) ==
    /\ SameUpToCaseAndSpace(s, k)
    /\ \A i \in 1..Len(s) : s[i] \in {" ", "_"} => k[i] = "_"

\* C4: calculate_tdee fails with ValueError for every activity level whose
\* normalized form is not one of the five keys, with no numeric result, and
\* the message lists the five keys in the table's order.
C4_TdeeFailsOnUnknownLevel ==
    (TdeeDone /\ ~\E k \in FiveKeys : NormalizesTo(call.activity_level, k))
        => /\ ret.kind = "ValueError"
           /\ DOMAIN ret = {"kind", "message"}
           /\ ret.message.text = "Invalid activity level. Choose from: "
           /\ ret.message.choices =
                <<"s", "e", "d", "e", "n", "t", "a", "r", "y", ",", " ", "l", "i", "g", "h", "t", "l", "y", "_", "a", "c", "t", "i", "v", "e", ",", " ", "m", "o", "d", "e", "r", "a", "t", "e", "l", "y", "_", "a", "c", "t", "i", "v", "e", ",", " ", "v", "e", "r", "y", "_", "a", "c", "t", "i", "v", "e", ",", " ", "s", "u", "p", "e", "r", "_", "a", "c", "t", "i", "v", "e">>

C4_Witness ==
    /\ TdeeDone
    /\ call.activity_level = <<"e", "x", "t", "r", "e", "m", "e">>
    /\ ret.kind = "ValueError"

\* C5: two activity levels that differ only in letter case and in a space
\* against an underscore give calculate_tdee the same outcome for every bmr.
C5_TdeeNormalizesLevel ==
    TdeeDone =>
        \A t \in ActivityLevels :
            SameUpToCaseAndSpace(call.activity_level, t)
                => calculate_tdee(call.bmr, t) = ret

C5_Witness ==
    /\ TdeeDone
    /\ call.activity_level = <<"L", "i", "g", "h", "t", "l", "y", " ", "A", "c", "t", "i", "v", "e">>
    /\ ret = Return(call.bmr * 1375)
    /\ call.bmr = 23460

\* C6: two genders that differ only in letter case give calculate_bmr the
\* same outcome for every weight, height and age.
C6_BmrCaseInsensitive ==
    BmrDone =>
        \A t \in Genders :
            SameUpToCase(call.gender, t)
                => calculate_bmr(call.weight_kg, call.height_cm, call.age, t) = ret

C6_Witness ==
    /\ BmrDone
    /\ call.gender = <<"M", "A", "L", "E">>
    /\ call.weight_kg = 53 * 16 /\ call.height_cm = 165 * 16 /\ call.age = 20
    /\ ret = Return(23460)

----------------------------------------------------------------------------
(* The __main__ block *)

\* round(x, 2) of a value in sixteenths, as a number of hundredths; Python
\* rounds an exactly representable tie to the even neighbour.
Round2(x) ==
    LET q == (x * 100) \div 16
        r == (x * 100) % 16
    IN  IF 2 * r < 16 THEN q
        ELSE IF 2 * r > 16 THEN q + 1
        ELSE IF q % 2 = 0 THEN q ELSE q + 1

\* math.floor(x) of a value in 1/16000
Floor(x) == x \div 16000

\* math.ceil(x) of a value in 1/16000
Ceil(x) == 0 - ((0 - x) \div 16000)

BannerLine == [line |-> "banner"]

\* line 78
InputsLine(m) ==
    [line |-> "inputs", gender |-> capitalize(m.gender), age |-> m.age,
     height_cm |-> m.height_cm, weight_kg |-> m.weight_kg,
     activity |-> capitalize(replace(m.activity_level, "_", " "))]

\* line 83
BmrLine(bmr_result) == [line |-> "bmr", value |-> Round2(bmr_result)]

\* line 87
TdeeLine(tdee_result) == [line |-> "tdee", value |-> Ceil(tdee_result)]

\* line 90
ErrorLine(e) == [line |-> "error", message |-> e]

\* Lines 71-75 have run: the profile is bound.  The gender and the activity
\* level are whatever has been placed in the profile.
InitMain ==
    /\ ACTIVITY_FACTORS = ActivityFactorsLiteral
    /\ call = [fn |-> "main"]
    /\ ret = NoOutcome
    /\ main \in [pc : {"line77"}, age : {20}, height_cm : {Real(165)},
                 weight_kg : {Real(53)}, gender : Genders,
                 activity_level : ActivityLevels]
    /\ stdout = <<>>
    /\ callers = NoCallers

\* lines 77-78
MainHeader ==
    /\ main.pc = "line77"
    /\ stdout' = stdout \o <<BannerLine, InputsLine(main)>>
    /\ main' = [main EXCEPT !.pc = "line82"]
    /\ UNCHANGED <<ACTIVITY_FACTORS, call, ret, callers>>

\* lines 82-83 with the print of line 83 left out
MainBmrSilent ==
    /\ main.pc = "line82"
    /\ LET r == calculate_bmr(main.weight_kg, main.height_cm, main.age, main.gender) IN
       IF r.kind = "ValueError"
       THEN /\ stdout' = Append(stdout, ErrorLine(r.message))
            /\ main' = [main EXCEPT !.pc = "exit"]
       ELSE /\ stdout' = stdout
            /\ main' = [pc |-> "line86", age |-> main.age, height_cm |-> main.height_cm,
                        weight_kg |-> main.weight_kg, gender |-> main.gender,
                        activity_level |-> main.activity_level,
                        bmr_result |-> r.value]
    /\ UNCHANGED <<ACTIVITY_FACTORS, call, ret, callers>>

\* lines 82-83, and lines 89-90 when calculate_bmr raises
MainBmr ==
    /\ main.pc = "line82"
    /\ LET r == calculate_bmr(main.weight_kg, main.height_cm, main.age, main.gender) IN
       IF r.kind = "ValueError"
       THEN /\ stdout' = Append(stdout, ErrorLine(r.message))
            /\ main' = [main EXCEPT !.pc = "exit"]
       ELSE /\ stdout' = Append(stdout, BmrLine(r.value))
            /\ main' = [pc |-> "line86", age |-> main.age, height_cm |-> main.height_cm,
                        weight_kg |-> main.weight_kg, gender |-> main.gender,
                        activity_level |-> main.activity_level,
                        bmr_result |-> r.value]
    /\ UNCHANGED <<ACTIVITY_FACTORS, call, ret, callers>>

\* lines 86-87, and lines 89-90 when calculate_tdee raises
MainTdee ==
    /\ main.pc = "line86"
    /\ LET r == calculate_tdee(main.bmr_result, main.activity_level) IN
       IF r.kind = "ValueError"
       THEN /\ stdout' = Append(stdout, ErrorLine(r.message))
            /\ main' = [main EXCEPT !.pc = "exit"]
       ELSE /\ stdout' = Append(stdout, TdeeLine(r.value))
            /\ main' = [pc |-> "exit", age |-> main.age, height_cm |-> main.height_cm,
                        weight_kg |-> main.weight_kg, gender |-> main.gender,
                        activity_level |-> main.activity_level,
                        bmr_result |-> main.bmr_result,
                        tdee_result |-> r.value]
    /\ UNCHANGED <<ACTIVITY_FACTORS, call, ret, callers>>

NextMain == MainHeader \/ MainBmr \/ MainTdee

SpecMain == InitMain /\ [][NextMain]_vars

Printed(kind) == \E i \in 1..Len(stdout) : stdout[i].line = kind

\* C7: in a run of __main__ that prints the error message, no BMR line and
\* no TDEE line is printed.
C7_ErrorReplacesValues ==
    Printed("error") => ~Printed("bmr") /\ ~Printed("tdee")

ProfileGenderValid ==
    SameUpToCase(main.gender, <<"m", "a", "l", "e">>) \/ SameUpToCase(main.gender, <<"f", "e", "m", "a", "l", "e">>)

ProfileLevelKnown == \E k \in FiveKeys : NormalizesTo(main.activity_level, k)

LineKinds == [i \in 1..Len(stdout) |-> stdout[i].line]

\* C7, amended: when calculate_bmr raises, the error message is printed and
\* neither the BMR line nor the TDEE line is; when calculate_tdee raises, the
\* BMR line has already been printed, the error message follows it and no
\* TDEE line is printed.
C7_ErrorEndsOutput ==
    /\ Printed("error") =>
          /\ ~Printed("tdee")
          /\ main.pc = "exit"
          /\ stdout[Len(stdout)].line = "error"
    /\ main.pc = "exit" =>
          IF ~ProfileGenderValid
          THEN /\ LineKinds = <<"banner", "inputs", "error">>
               /\ stdout[3].message = "Gender must be 'male' or 'female'."
          ELSE IF ~ProfileLevelKnown
          THEN /\ LineKinds = <<"banner", "inputs", "bmr", "error">>
               /\ stdout[4].message.text = "Invalid activity level. Choose from: "
          ELSE LineKinds = <<"banner", "inputs", "bmr", "tdee">>

\* calculate_tdee has raised after the BMR line was printed.
C7_Witness ==
    /\ main.pc = "exit"
    /\ main.gender = <<"M", "a", "l", "e">>
    /\ main.activity_level = <<"e", "x", "t", "r", "e", "m", "e">>
    /\ LineKinds = <<"banner", "inputs", "bmr", "error">>

HardCodedProfile ==
    /\ main.gender = <<"m", "a", "l", "e">>
    /\ main.activity_level = <<"l", "i", "g", "h", "t", "l", "y", "_", "a", "c", "t", "i", "v", "e">>

\* C9: on the hard-coded profile __main__ raises no error, computes the BMR
\* first and feeds it into the TDEE, and prints the BMR line with 1466.25
\* before the TDEE line with 2017, 2016.09375 rounded up.
C9_DemoOutput ==
    HardCodedProfile =>
        /\ ~Printed("error")
        /\ main.pc = "line86" =>
              /\ main.bmr_result = 23460
              /\ stdout[Len(stdout)] = [line |-> "bmr", value |-> 146625]
              /\ ~Printed("tdee")
        /\ main.pc = "exit" =>
              /\ main.bmr_result = 23460
              /\ main.tdee_result = 32257500
              /\ main.tdee_result = main.bmr_result * 1375
              /\ Len(stdout) = 4
              /\ stdout[1] = [line |-> "banner"]
              /\ stdout[2] = [line |-> "inputs", gender |-> <<"M", "a", "l", "e">>, age |-> 20,
                              height_cm |-> 165 * 16, weight_kg |-> 53 * 16,
                              activity |-> <<"L", "i", "g", "h", "t", "l", "y", " ", "a", "c", "t", "i", "v", "e">>]
              /\ stdout[3] = [line |-> "bmr", value |-> 146625]
              /\ stdout[4] = [line |-> "tdee", value |-> 2017]

C9_Witness ==
    /\ HardCodedProfile
    /\ main.pc = "exit"
    /\ Len(stdout) = 4
    /\ stdout[4].line = "tdee"

----------------------------------------------------------------------------
(* Concurrent callers: each function body runs line by line, and the lines  *)
(* of different callers interleave.  Nothing takes a lock.                  *)

Callers == 1..NumCallers

ConcCalls ==
    [fn : {"calculate_bmr"}, weight_kg : {Real(53)}, height_cm : {Real(165)},
     age : {20}, gender : {<<"m", "a", "l", "e">>, <<"M", "A", "L", "E">>, <<"f", "e", "m", "a", "l", "e">>, <<"x">>}]
    \cup
    [fn : {"calculate_tdee"}, bmr : {23460},
     activity_level : {<<"l", "i", "g", "h", "t", "l", "y", "_", "a", "c", "t", "i", "v", "e">>, <<"L", "i", "g", "h", "t", "l", "y", " ", "A", "c", "t", "i", "v", "e">>, <<"s", "e", "d", "e", "n", "t", "a", "r", "y">>, <<"e", "x", "t", "r", "e", "m", "e">>}]

InitConc ==
    /\ ACTIVITY_FACTORS = ActivityFactorsLiteral
    /\ call = [fn |-> "callers"]
    /\ ret = NoOutcome
    /\ main = MainIdle
    /\ stdout = <<>>
    /\ callers = NoCallers

\* a caller, idle or back from its previous call, calls one of the functions
Enter(c) ==
    /\ callers[c].pc \in {"idle", "returned"}
    /\ \E k \in ConcCalls :
          callers' = [callers EXCEPT ![c] =
              IF k.fn = "calculate_bmr"
              THEN [pc |-> "line28", call |-> k]
              ELSE [pc |-> "line56", call |-> k, activity_level |-> k.activity_level]]
    /\ UNCHANGED <<ACTIVITY_FACTORS, call, ret, main, stdout>>

\* lines 28-29
BmrCheckGender(c) ==
    /\ callers[c].pc = "line28"
    /\ callers' = [callers EXCEPT ![c] =
          IF ~GenderValid(callers[c].call.gender)
          THEN [pc |-> "returned", call |-> callers[c].call,
                outcome |-> ValueError(GenderErrorMessage)]
          ELSE [pc |-> "line31", call |-> callers[c].call]]
    /\ UNCHANGED <<ACTIVITY_FACTORS, call, ret, main, stdout>>

\* line 31
BmrBase(c) ==
    /\ callers[c].pc = "line31"
    /\ LET k == callers[c].call IN
       callers' = [callers EXCEPT ![c] =
          [pc |-> "line33", call |-> k,
           base_bmr |-> BaseBmr(k.weight_kg, k.height_cm, k.age)]]
    /\ UNCHANGED <<ACTIVITY_FACTORS, call, ret, main, stdout>>

\* lines 33-40
BmrOffset(c) ==
    /\ callers[c].pc = "line33"
    /\ callers' = [callers EXCEPT ![c] =
          [pc |-> "returned", call |-> callers[c].call,
           outcome |-> Return(BmrGenderOffset(callers[c].base_bmr,
                                              callers[c].call.gender))]]
    /\ UNCHANGED <<ACTIVITY_FACTORS, call, ret, main, stdout>>

\* line 56: the parameter is rebound to its normalized form
TdeeNormalize(c) ==
    /\ callers[c].pc = "line56"
    /\ callers' = [callers EXCEPT ![c] =
          [pc |-> "line58", call |-> callers[c].call,
           activity_level |-> NormalizeActivity(callers[c].activity_level)]]
    /\ UNCHANGED <<ACTIVITY_FACTORS, call, ret, main, stdout>>

\* lines 58-59: reads the shared table
TdeeCheckLevel(c) ==
    /\ callers[c].pc = "line58"
    /\ callers' = [callers EXCEPT ![c] =
          IF ~Contains(ACTIVITY_FACTORS, callers[c].activity_level)
          THEN [pc |-> "returned", call |-> callers[c].call,
                outcome |-> ValueError(ActivityErrorMessage(ACTIVITY_FACTORS))]
          ELSE [callers[c] EXCEPT !.pc = "line61"]]
    /\ UNCHANGED <<ACTIVITY_FACTORS, call, ret, main, stdout>>

\* A variant of line 61 that takes the entry out of the table,
\* ACTIVITY_FACTORS.pop(activity_level), and raises KeyError when it is gone.
TdeeLookupPop(c) ==
    /\ callers[c].pc = "line61"
    /\ IF Contains(ACTIVITY_FACTORS, callers[c].activity_level)
       THEN /\ callers' = [callers EXCEPT ![c] =
                  [pc |-> "line63", call |-> callers[c].call,
                   activity_level |-> callers[c].activity_level,
                   activity_factor |-> Lookup(ACTIVITY_FACTORS, callers[c].activity_level)]]
            /\ ACTIVITY_FACTORS' =
                  SelectSeq(ACTIVITY_FACTORS,
                            LAMBDA e : e.key # callers[c].activity_level)
       ELSE /\ callers' = [callers EXCEPT ![c] =
                  [pc |-> "returned", call |-> callers[c].call,
                   outcome |-> [kind |-> "KeyError"]]]
            /\ UNCHANGED ACTIVITY_FACTORS
    /\ UNCHANGED <<call, ret, main, stdout>>

\* line 61: reads the shared table
TdeeLookup(c) ==
    /\ callers[c].pc = "line61"
    /\ callers' = [callers EXCEPT ![c] =
          [pc |-> "line63", call |-> callers[c].call,
           activity_level |-> callers[c].activity_level,
           activity_factor |-> Lookup(ACTIVITY_FACTORS, callers[c].activity_level)]]
    /\ UNCHANGED <<ACTIVITY_FACTORS, call, ret, main, stdout>>

\* lines 63-65
TdeeMultiply(c) ==
    /\ callers[c].pc = "line63"
    /\ callers' = [callers EXCEPT ![c] =
          [pc |-> "returned", call |-> callers[c].call,
           outcome |-> Return(callers[c].call.bmr * callers[c].activity_factor)]]
    /\ UNCHANGED <<ACTIVITY_FACTORS, call, ret, main, stdout>>

NextConc ==
    \E c \in Callers :
        \/ Enter(c)
        \/ BmrCheckGender(c)
        \/ BmrBase(c)
        \/ BmrOffset(c)
        \/ TdeeNormalize(c)
        \/ TdeeCheckLevel(c)
        \/ TdeeLookup(c)
        \/ TdeeMultiply(c)

SpecConc == InitConc /\ [][NextConc]_vars

\* The outcome of a call made alone, on the table as initialized.
Alone(k) ==
    IF k.fn = "calculate_bmr"
    THEN calculate_bmr(k.weight_kg, k.height_cm, k.age, k.gender)
    ELSE calculate_tdee_in(ActivityFactorsLiteral, k.bmr, k.activity_level)

\* C8: whatever the other callers do and have done, a call yields the
\* outcome the same call yields alone, so two calls with identical arguments
\* yield identical outcomes.
C8_OutcomeDependsOnArgumentsOnly ==
    \A c \in Callers :
        callers[c].pc = "returned" =>
            /\ callers[c].outcome = Alone(callers[c].call)
            /\ \A d \in Callers :
                  (callers[d].pc = "returned" /\ callers[d].call = callers[c].call)
                      => callers[d].outcome = callers[c].outcome

\* Two callers were inside calculate_tdee together and both are back.
C8_Witness ==
    /\ NumCallers >= 2
    /\ callers[1].pc = "returned" /\ callers[2].pc = "returned"
    /\ callers[1].call.fn = "calculate_tdee"
    /\ callers[1].call.activity_level = <<"L", "i", "g", "h", "t", "l", "y", " ", "A", "c", "t", "i", "v", "e">>
    /\ callers[2].call.fn = "calculate_tdee"
    /\ callers[2].call.activity_level = <<"l", "i", "g", "h", "t", "l", "y", "_", "a", "c", "t", "i", "v", "e">>
    /\ callers[1].outcome = Return(32257500)

\* C10: every call of calculate_bmr and calculate_tdee, returning or
\* raising, leaves ACTIVITY_FACTORS with the same five keys, in the same
\* order, bound to the same factors.
C10_TableNeverWritten ==
    [][ /\ ACTIVITY_FACTORS' = ACTIVITY_FACTORS
        /\ [i \in 1..Len(ACTIVITY_FACTORS') |-> ACTIVITY_FACTORS'[i].key] =
              << <<"s", "e", "d", "e", "n", "t", "a", "r", "y">>, <<"l", "i", "g", "h", "t", "l", "y", "_", "a", "c", "t", "i", "v", "e">>, <<"m", "o", "d", "e", "r", "a", "t", "e", "l", "y", "_", "a", "c", "t", "i", "v", "e">>,
                 <<"v", "e", "r", "y", "_", "a", "c", "t", "i", "v", "e">>, <<"s", "u", "p", "e", "r", "_", "a", "c", "t", "i", "v", "e">> >>
        /\ [i \in 1..Len(ACTIVITY_FACTORS') |-> ACTIVITY_FACTORS'[i].factor] =
              <<1200, 1375, 1550, 1725, 1900>> ]_vars

\* A call has raised and another has returned a value.
C10_Witness ==
    /\ NumCallers >= 2
    /\ callers[1].pc = "returned" /\ callers[1].outcome.kind = "ValueError"
    /\ callers[1].call.fn = "calculate_tdee"
    /\ callers[2].pc = "returned" /\ callers[2].outcome.kind = "return"
    /\ callers[2].call.fn = "calculate_tdee"
    /\ Len(ACTIVITY_FACTORS) = 5

====
